---- MODULE Spec2Model ----
(***************************************************************************)
(* A model of app/app.py: the form parser parse_value, the POST /predict   *)
(* handler and the POST /generate_blueprint handler.                       *)
(*                                                                         *)
(* Text is a sequence of one-character strings.  A Python float is a       *)
(* record [k, v]: k = "fin" with v the value in tenths, or k one of        *)
(* "nan", "inf", "-inf" with v = 0.  An optional value (None or a str) is  *)
(* a record [present, s].                                                  *)
(***************************************************************************)
EXTENDS Integers, Sequences, FiniteSets, TLC

\* ------------------------------------------------------------------ bounds
\* Fields of a form that may carry a value other than the valid default.
MaxBad == 2
\* A rooms list is up to MaxHead entries of any kind, or a long list: up to
\* MaxLargeHead distinct larger rooms, an entry of negative area, then n rooms of
\* 1 sq.ft, n a multiple of FillStep up to MaxFillSteps * FillStep.
MaxHead == 2
MaxLargeHead == 3
FillStep == 15
MaxFillSteps == 3

\* ----------------------------------------------------------------- text
Digits == <<"0", "1", "2", "3", "4", "5", "6", "7", "8", "9">>
UpperChars == <<"A", "B", "C", "D", "E", "F", "G", "H", "I", "J", "K", "L", "M",
                "N", "O", "P", "Q", "R", "S", "T", "U", "V", "W", "X", "Y", "Z">>
LowerChars == <<"a", "b", "c", "d", "e", "f", "g", "h", "i", "j", "k", "l", "m",
                "n", "o", "p", "q", "r", "s", "t", "u", "v", "w", "x", "y", "z">>

\* str.isspace for the characters of the model's alphabet
IsWs(c) == c \in {" ", "\t", "\n"}

IsDigit(c) == \E d \in 1..10 : Digits[d] = c

DigitVal(c) == (CHOOSE d \in 1..10 : Digits[d] = c) - 1

\* str.lower, one character
LowerChar(c) ==
    IF \E u \in 1..26 : UpperChars[u] = c
    THEN LowerChars[CHOOSE u \in 1..26 : UpperChars[u] = c]
    ELSE c

\* str.lower
Lower(s) == [p \in 1..Len(s) |-> LowerChar(s[p])]

RECURSIVE LStrip(_)
LStrip(s) == IF s # <<>> /\ IsWs(Head(s)) THEN LStrip(Tail(s)) ELSE s

RECURSIVE RStrip(_)
RStrip(s) ==
    IF s # <<>> /\ IsWs(s[Len(s)]) THEN RStrip(SubSeq(s, 1, Len(s) - 1)) ELSE s

\* str.strip
Strip(s) == RStrip(LStrip(s))

AllDigits(s) == \A p \in 1..Len(s) : IsDigit(s[p])

RECURSIVE DigitsValue(_)
DigitsValue(s) ==
    IF s = <<>> THEN 0
    ELSE 10 * DigitsValue(SubSeq(s, 1, Len(s) - 1)) + DigitVal(s[Len(s)])

RECURSIVE Pow10(_)
Pow10(n) == IF n <= 0 THEN 1 ELSE 10 * Pow10(n - 1)

\* Index of the first character of s that is in cs, or 0.
FirstOf(s, cs) ==
    IF \E p \in 1..Len(s) : s[p] \in cs
    THEN CHOOSE p \in 1..Len(s) : s[p] \in cs /\ \A q \in 1..(p - 1) : s[q] \notin cs
    ELSE 0

\* -------------------------------------------------------------- floats
\* v of a finite float is the value times FScale
FScale == Pow10(1)

Fin(v) == [k |-> "fin", v |-> v]
NaN == [k |-> "nan", v |-> 0]
PosInf == [k |-> "inf", v |-> 0]
NegInf == [k |-> "-inf", v |-> 0]

\* float(int)
FloatOfInt(n) == Fin(n * FScale)

FloatOk(f) == [ok |-> TRUE, val |-> f]
FloatFail == [ok |-> FALSE, val |-> Fin(0)]

HasSign(t) == t # <<>> /\ Head(t) \in {"+", "-"}

\* The unsigned decimal literal b: digits, an optional point, an optional
\* exponent.  [ok, val] with val in tenths (digits beyond the first decimal
\* are cut: the model's inputs have none).
DecimalLiteral(b) ==
    LET ePos == FirstOf(b, {"e", "E"})
        mant == IF ePos = 0 THEN b ELSE SubSeq(b, 1, ePos - 1)
        expo == IF ePos = 0 THEN <<>> ELSE SubSeq(b, ePos + 1, Len(b))
        eNeg == expo # <<>> /\ Head(expo) = "-"
        eDig == IF HasSign(expo) THEN Tail(expo) ELSE expo
        dot  == FirstOf(mant, {"."})
        ip   == IF dot = 0 THEN mant ELSE SubSeq(mant, 1, dot - 1)
        fp   == IF dot = 0 THEN <<>> ELSE SubSeq(mant, dot + 1, Len(mant))
        expOk == ePos = 0 \/ (eDig # <<>> /\ AllDigits(eDig))
        mantOk == AllDigits(ip) /\ AllDigits(fp) /\ Len(ip) + Len(fp) >= 1
        e    == IF ePos = 0 THEN 0
                ELSE IF eNeg THEN 0 - DigitsValue(eDig) ELSE DigitsValue(eDig)
        sh   == e - Len(fp) + 1
        num  == DigitsValue(ip \o fp)
    IN  IF mantOk /\ expOk
        THEN [ok |-> TRUE,
              val |-> IF sh >= 0 THEN num * Pow10(sh) ELSE num \div Pow10(0 - sh)]
        ELSE [ok |-> FALSE, val |-> 0]

\* float(str): surrounding whitespace ignored, an optional sign, then
\* inf / infinity / nan in any case or a decimal literal; ValueError otherwise.
PyFloat(s) ==
    LET t    == Strip(s)
        neg  == t # <<>> /\ Head(t) = "-"
        b    == IF HasSign(t) THEN Tail(t) ELSE t
        low  == Lower(b)
        d    == DecimalLiteral(b)
    IN  IF low \in {<<"i", "n", "f">>, <<"i", "n", "f", "i", "n", "i", "t", "y">>}
        THEN FloatOk(IF neg THEN NegInf ELSE PosInf)
        ELSE IF low = <<"n", "a", "n">> THEN FloatOk(NaN)
        ELSE IF d.ok THEN FloatOk(Fin(IF neg THEN 0 - d.val ELSE d.val))
        ELSE FloatFail

\* ------------------------------------------------------- parse_value
FEATURES == <<"area", "bedrooms", "bathrooms", "stories", "mainroad", "guestroom",
              "basement", "hotwaterheating", "airconditioning", "parking",
              "prefarea", "furnishingstatus">>

None == [present |-> FALSE, s |-> <<>>]
Some(s) == [present |-> TRUE, s |-> s]

Unfurnished == <<"u", "n", "f", "u", "r", "n", "i", "s", "h", "e", "d">>
SemiFurnished == <<"s", "e", "m", "i", "-", "f", "u", "r", "n", "i", "s", "h", "e", "d">>
Furnished == <<"f", "u", "r", "n", "i", "s", "h", "e", "d">>

\* the dict of parse_value
mapping == (Unfurnished :> 0) @@ (SemiFurnished :> 1) @@ (Furnished :> 2)

NoError == [kind |-> "none", name |-> "", raw |-> <<>>]
\* ValueError(f"Missing input for: {name}")
MissingInput(name) == [kind |-> "MissingInput", name |-> name, raw |-> <<>>]
\* ValueError(f"Invalid numeric input for {name}: {raw}")
InvalidNumeric(name, raw) == [kind |-> "InvalidNumeric", name |-> name, raw |-> raw]
\* ValueError(f"Unrecognized furnishingstatus: {raw}")
UnrecognizedCategory(raw) ==
    [kind |-> "UnrecognizedCategory", name |-> "furnishingstatus", raw |-> raw]

Return(f) == [ok |-> TRUE, val |-> f, err |-> NoError]
Raise(e) == [ok |-> FALSE, val |-> Fin(0), err |-> e]

\* parse_value with the emptiness test made before the strip.
parse_value_unstripped(name, raw_value) ==
    IF ~raw_value.present \/ raw_value.s = <<>> THEN Raise(MissingInput(name))
    ELSE LET raw == Strip(raw_value.s)
             f   == PyFloat(raw)
         IN  IF f.ok THEN Return(f.val)
             ELSE IF name = "furnishingstatus"
             THEN IF Lower(raw) \in DOMAIN mapping
                  THEN Return(FloatOfInt(mapping[Lower(raw)]))
                  ELSE Raise(UnrecognizedCategory(raw))
             ELSE Raise(InvalidNumeric(name, raw))

\* parse_value with the category looked up without lower-casing.
parse_value_cased(name, raw_value) ==
    IF ~raw_value.present \/ Strip(raw_value.s) = <<>> THEN Raise(MissingInput(name))
    ELSE LET raw == Strip(raw_value.s)
             f   == PyFloat(raw)
         IN  IF f.ok THEN Return(f.val)
             ELSE IF name = "furnishingstatus"
             THEN IF raw \in DOMAIN mapping
                  THEN Return(FloatOfInt(mapping[raw]))
                  ELSE Raise(UnrecognizedCategory(raw))
             ELSE Raise(InvalidNumeric(name, raw))

parse_value(name, raw_value) ==
    IF ~raw_value.present THEN Raise(MissingInput(name))
    ELSE LET raw == Strip(raw_value.s)
         IN  IF raw = <<>> THEN Raise(MissingInput(name))
             ELSE IF name = "furnishingstatus"
             THEN LET f == PyFloat(raw)
                      key == Lower(raw)
                  IN  IF f.ok THEN Return(f.val)
                      ELSE IF key \in DOMAIN mapping
                      THEN Return(FloatOfInt(mapping[key]))
                      ELSE Raise(UnrecognizedCategory(raw))
             ELSE LET f == PyFloat(raw)
                  IN  IF f.ok THEN Return(f.val)
                      ELSE Raise(InvalidNumeric(name, raw))

\* ------------------------------------------------------------ inputs
\* Whitespace put before and after a value.
PadsLeft == {<<>>, <<" ">>, <<"\t", " ">>}
PadsRight == {<<>>, <<" ">>, <<" ", "\n">>}

\* Values before padding: nothing, numbers, the three categories in several
\* cases, near misses of both.
Cores == {<<>>,
          <<"2">>, <<"1", ".", "5">>, <<"-", "3">>, <<"+", ".", "5">>, <<"7", ".">>,
          <<"1", "e", "3">>, <<"2", "5", "E", "-", "1">>,
          <<"n", "a", "n">>, <<"I", "n", "f">>, <<"-", "i", "n", "f", "i", "n", "i", "t", "y">>,
          <<"a", "b", "c">>, <<"1", " ", "2">>, <<"1", ".", "2", ".", "3">>, <<"e", "5">>,
          <<"1", "e">>, <<".">>, <<"-">>, <<"2", "x">>,
          Unfurnished, SemiFurnished, Furnished,
          <<"F", "u", "r", "n", "i", "s", "h", "e", "d">>,
          <<"S", "E", "M", "I", "-", "F", "U", "R", "N", "I", "S", "H", "E", "D">>,
          <<"U", "n", "F", "u", "r", "n", "i", "s", "h", "e", "d">>,
          <<"s", "e", "m", "i", " ", "f", "u", "r", "n", "i", "s", "h", "e", "d">>,
          <<"s", "e", "m", "i", "f", "u", "r", "n", "i", "s", "h", "e", "d">>,
          <<"f", "u", "r", "n", "i", "s", "h">>,
          <<"p", "e", "n", "t", "h", "o", "u", "s", "e">>}

RawValues == {None} \cup {Some(l \o c \o r) : l \in PadsLeft, c \in Cores, r \in PadsRight}

\* ------------------------------------------------------------- state
VARIABLES
    pc,             \* where the process is: idle, inside a handler, or done
    parse_call,     \* the last direct call of parse_value: name, raw, result
    request_form,   \* POST /predict: the form, (name, value) pairs as sent
    feat_i,         \* POST /predict: position of the for loop in FEATURES
    values,         \* POST /predict: the list values
    model_calls,    \* the arguments X of every model.predict call
    pred,           \* POST /predict: model.predict(X)[0]
    response,       \* POST /predict: the page rendered and its arguments
    payload,        \* POST /generate_blueprint: the request body
    san_i,          \* position of the sanitize loop in rooms
    sanitized,      \* the list sanitized
    total_area,     \* the float total_area
    rooms_sorted,   \* the list rooms_sorted
    room_i,         \* position of the placement loop in rooms_sorted
    x,              \* the cursor
    y,
    max_row_height,
    rectangles,     \* the draw.rectangle calls, each with its label
    fp_down,        \* the whole-number float products that come out below
    bp_response     \* POST /generate_blueprint: status and body

predict_vars == <<request_form, feat_i, values, model_calls, pred, response>>
blueprint_vars == <<payload, san_i, sanitized, total_area, rooms_sorted, room_i, x, y,
                    max_row_height, rectangles, fp_down, bp_response>>
vars == <<pc, parse_call, predict_vars, blueprint_vars>>

\* ----------------------------------------------------- POST /predict
\* A lookup by arrival position: the value of the pair that arrived at the
\* position the name has in FEATURES.
FormGetByPosition(form, name) ==
    LET p == CHOOSE q \in 1..Len(FEATURES) : FEATURES[q] = name
    IN  IF p <= Len(form) THEN Some(form[p].value) ELSE None

\* request.form.get(name): the first value sent under the name, or None
FormGet(form, name) ==
    IF \E p \in 1..Len(form) : form[p].name = name
    THEN Some(form[CHOOSE p \in 1..Len(form) :
                     /\ form[p].name = name
                     /\ \A q \in 1..(p - 1) : form[q].name # name].value)
    ELSE None

\* What the opaque model may do: raise, or return a number, a str or None.
ModelRaises == [raises |-> TRUE, kind |-> "none", num |-> Fin(0), s |-> <<>>]
PredNumber(f) == [raises |-> FALSE, kind |-> "number", num |-> f, s |-> <<>>]
PredStr(s) == [raises |-> FALSE, kind |-> "str", num |-> Fin(0), s |-> s]
PredNone == [raises |-> FALSE, kind |-> "none", num |-> Fin(0), s |-> <<>>]
\* pred before model.predict has returned
PredUnset == [raises |-> FALSE, kind |-> "unset", num |-> Fin(0), s |-> <<>>]

\* float(pred): TypeError for None, ValueError for a str that is no number
FloatOfPred(p) ==
    IF p.kind = "number" THEN FloatOk(p.num)
    ELSE IF p.kind = "str" THEN PyFloat(p.s)
    ELSE FloatFail

RECURSIVE NatText(_)
\* str(n) for n >= 0
NatText(n) == IF n < 10 THEN <<Digits[n + 1]>> ELSE NatText(n \div 10) \o <<Digits[(n % 10) + 1]>>

\* round(num / den) to the nearest integer, ties to even; num >= 0, den > 0
RoundHalfEven(num, den) ==
    LET q == num \div den
        r == num % den
    IN  IF 2 * r > den \/ (2 * r = den /\ q % 2 = 1) THEN q + 1 ELSE q

\* f"{x:.2f}" for x = num / den, den > 0
Format2(num, den) ==
    LET a == IF num < 0 THEN 0 - num ELSE num
        h == RoundHalfEven(100 * a, den)
    IN  (IF num < 0 THEN <<"-">> ELSE <<>>)
        \o NatText(h \div 100) \o <<".">> \o <<Digits[((h \div 10) % 10) + 1], Digits[(h % 10) + 1]>>

\* f"{x:.2f}" for the float x divided by div (div = 1: x itself)
FormatFloat2(f, div) ==
    IF f.k = "fin" THEN Format2(f.v, FScale * div)
    ELSE IF f.k = "nan" THEN <<"n", "a", "n">>
    ELSE IF f.k = "inf" THEN <<"i", "n", "f">>
    ELSE <<"-", "i", "n", "f">>

Lakh == 100000

NoArea == [present |-> FALSE, f |-> Fin(0)]
SomeArea(f) == [present |-> TRUE, f |-> f]

NoResponse ==
    [page |-> "none", prediction |-> <<>>, error |-> NoError, total_area |-> NoArea]
\* render_template("index.html", prediction=f"Error: {e}")
ErrorPage(e) ==
    [page |-> "index.html", prediction |-> <<"E", "r", "r", "o", "r", ":", " ">>,
     error |-> e, total_area |-> NoArea]
\* render_template("estimate.html", prediction=..., total_area=...)
EstimatePage(text, area) ==
    [page |-> "estimate.html", prediction |-> text, error |-> NoError, total_area |-> area]

ModelError == [kind |-> "ModelError", name |-> "", raw |-> <<>>]
\* the TypeError or ValueError of float(pred)
FloatError == [kind |-> "FloatError", name |-> "", raw |-> <<>>]

\* ------------------------------------------ POST /generate_blueprint
img_w == 1500
img_h == 1000
padding == 16
base_row_height == 200
\* (img_w - padding * 2) * (img_h - padding * 2)
available_area_pixels == (img_w - padding * 2) * (img_h - padding * 2)

Max(a, b) == IF a >= b THEN a ELSE b

\* a JSON value under the key "area": absent, null, a number, a string
AreaAbsent == [kind |-> "absent", num |-> 0, s |-> <<>>]
AreaNull == [kind |-> "null", num |-> 0, s |-> <<>>]
AreaNum(tenths) == [kind |-> "number", num |-> tenths, s |-> <<>>]
AreaStr(s) == [kind |-> "str", num |-> 0, s |-> s]

\* an entry of the rooms list: a JSON object with optional keys room and
\* area, or a JSON value that is no object
RoomObj(room, area) == [isobj |-> TRUE, hasroom |-> TRUE, room |-> room, area |-> area]
RoomNoName(area) == [isobj |-> TRUE, hasroom |-> FALSE, room |-> "", area |-> area]
NotAnObject == [isobj |-> FALSE, hasroom |-> FALSE, room |-> "", area |-> AreaAbsent]

\* the try block around float(r.get("area", 0)): 0.0 on any exception
AreaOf(r) ==
    IF r.area.kind = "absent" THEN FloatOfInt(0)
    ELSE IF r.area.kind = "number" THEN Fin(r.area.num)
    ELSE IF r.area.kind = "str"
    THEN (IF PyFloat(r.area.s).ok THEN PyFloat(r.area.s).val ELSE Fin(0))
    ELSE Fin(0)

\* str(r.get("room", "Room"))
NameOf(r) == IF r.hasroom THEN r.room ELSE "Room"

\* area > 0
Positive(f) == f.k = "inf" \/ (f.k = "fin" /\ f.v > 0)

\* a + b for floats that are not nan
FAdd(a, b) ==
    IF a.k = "fin" /\ b.k = "fin" THEN Fin(a.v + b.v)
    ELSE IF a.k = "fin" THEN b
    ELSE a

\* a < b for floats that are not nan
FLess(a, b) ==
    IF a.k = "fin" /\ b.k = "fin" THEN a.v < b.v
    ELSE IF a.k = b.k THEN FALSE
    ELSE a.k = "-inf" \/ b.k = "inf"

\* -a
FNeg(a) ==
    IF a.k = "fin" THEN Fin(0 - a.v)
    ELSE IF a.k = "inf" THEN NegInf
    ELSE IF a.k = "-inf" THEN PosInf
    ELSE a

\* the sort key: lambda r: -r["area"]
SortKey(r) == FNeg(r.area)

\* The order of a sort that is not stable: equal keys come out reversed.
SortsBeforeUnstable(seq, i, j) ==
    \/ FLess(SortKey(seq[i]), SortKey(seq[j]))
    \/ ~FLess(SortKey(seq[j]), SortKey(seq[i])) /\ i > j

\* Whether element i of seq comes before element j in sorted(seq, key=SortKey):
\* its key is smaller, or the keys are equal and it stands earlier (the sort
\* is stable).
SortsBefore(seq, i, j) ==
    \/ FLess(SortKey(seq[i]), SortKey(seq[j]))
    \/ ~FLess(SortKey(seq[j]), SortKey(seq[i])) /\ i < j

\* sorted(seq, key=SortKey): ascending in the key, stable
Sorted(seq) ==
    LET n    == Len(seq)
        rank == [i \in 1..n |-> 1 + Cardinality({j \in 1..n : SortsBefore(seq, j, i)})]
    IN  [p \in 1..n |-> seq[CHOOSE i \in 1..n : rank[i] = p]]

\* A divisor that leaves total_area out.
TotalOrOneForgotten(total) == 1 * FScale

\* max(1.0, total_area) in tenths
TotalOrOne(total) == Max(1 * FScale, total.v)

RECURSIVE MulDiv(_, _, _)
\* [q, r] with a * b = q * c + r and 0 <= r < c, for a, b >= 0 and c > 0,
\* computed without forming a * b
MulDiv(a, b, c) ==
    IF a = 0 THEN [q |-> 0, r |-> 0]
    ELSE LET half == MulDiv(a \div 2, b, c)
             rest == 2 * half.r + (a % 2) * b
         IN  [q |-> 2 * half.q + rest \div c, r |-> rest % c]

\* area * px_per_sqft * 1.8 as an exact quotient [q, r], where
\* px_per_sqft = (available_area_pixels * 0.0005) / max(1.0, total_area),
\* for finite area and total_area: 0.0005 * 1.8 = 9 / 10000
WidthQuot(area, total) ==
    MulDiv(area.v, available_area_pixels * 9, TotalOrOne(total) * 10000)

\* base_row_height * (1.0 + (area / total_area) * 1.4) as an exact quotient
HeightQuot(area, total) ==
    [q |-> (base_row_height * (10 * total.v + 14 * area.v)) \div (10 * total.v),
     r |-> (base_row_height * (10 * total.v + 14 * area.v)) % (10 * total.v)]

\* int(v) of the float product v whose exact value is the quotient qr: the
\* whole part.  Where the exact value is a whole number the rounding of the
\* float operations decides between it and the number below; down says which.
IntOfProduct(qr, down) == IF qr.r = 0 /\ qr.q > 0 /\ down THEN qr.q - 1 ELSE qr.q

\* int(x) of a positive finite float
IntOf(f) == f.v \div FScale

\* ------------------------------------------------------ the requests
\* Values a form field may carry instead of the valid default "2".
FormSamples == {None,
                Some(<<" ", "1", ".", "5", " ">>),
                Some(<<"a", "b", "c">>)}

\* One more value for the furnishingstatus field.
CategorySample == Some(<<"F", "u", "r", "n", "i", "s", "h", "e", "d">>)

FieldSamples(f) ==
    IF FEATURES[f] = "furnishingstatus" THEN FormSamples \cup {CategorySample}
    ELSE FormSamples

DefaultValue == Some(<<"2">>)

NFeatures == Len(FEATURES)

\* The fields that differ from the default, with their values.
Overrides ==
    UNION {{ov \in [S -> FormSamples \cup {CategorySample}] :
              \A f \in S : ov[f] \in FieldSamples(f)} :
             S \in {T \in SUBSET (1..NFeatures) : Cardinality(T) <= MaxBad}}

FieldValue(ov, f) == IF f \in DOMAIN ov THEN ov[f] ELSE DefaultValue

\* The orders in which a client sends the fields: as listed, or reversed.
Orders == {[p \in 1..NFeatures |-> p], [p \in 1..NFeatures |-> NFeatures + 1 - p]}

IsSent(pair) == pair.sent

\* The form body: the fields in the order sent; a field with no value is not sent.
BuildForm(ov, order) ==
    LET all == [p \in 1..NFeatures |->
                  [name |-> FEATURES[order[p]],
                   value |-> FieldValue(ov, order[p]).s,
                   sent |-> FieldValue(ov, order[p]).present]]
    IN  SelectSeq(all, IsSent)

\* What model.predict(X)[0] may be.  No number is a tie of the rounding to
\* two decimals.
PredOutcomes == {ModelRaises,
                 PredNumber(Fin(4500000)),
                 PredNumber(Fin(12345678)),
                 PredNumber(Fin(0 - 10)),
                 PredNumber(NaN),
                 PredStr(<<"a", "b", "c">>),
                 PredStr(<<"2", "5", "0", "0", "0", "0">>),
                 PredNone}

\* ------------------------------------------------------------- actions
Init ==
    /\ pc = "idle"
    /\ parse_call = [name |-> "", raw |-> None, result |-> Return(Fin(0))]
    /\ request_form = <<>>
    /\ feat_i = 0
    /\ values = <<>>
    /\ model_calls = <<>>
    /\ pred = PredUnset
    /\ response = NoResponse
    /\ payload = [json |-> "none", rooms |-> [kind |-> "absent", truthy |-> FALSE, items |-> <<>>]]
    /\ san_i = 0
    /\ sanitized = <<>>
    /\ total_area = Fin(0)
    /\ rooms_sorted = <<>>
    /\ room_i = 0
    /\ x = 0
    /\ y = 0
    /\ max_row_height = 0
    /\ rectangles = <<>>
    /\ fp_down = {}
    /\ bp_response = [status |-> 0, png |-> FALSE, error |-> "", footer |-> 0]

\* A direct call parse_value(name, raw_value).
ParseCall ==
    /\ pc = "idle"
    /\ \E n \in 1..NFeatures, raw \in RawValues :
         parse_call' = [name |-> FEATURES[n], raw |-> raw,
                        result |-> parse_value(FEATURES[n], raw)]
    /\ pc' = "parsed"
    /\ UNCHANGED <<predict_vars, blueprint_vars>>

\* POST /predict arrives: values = [] and the loop starts.
PredictRequest ==
    /\ pc = "idle"
    /\ \E ov \in Overrides, order \in Orders : request_form' = BuildForm(ov, order)
    /\ values' = <<>>
    /\ feat_i' = 1
    /\ pc' = "predict_parse"
    /\ UNCHANGED <<parse_call, model_calls, pred, response, blueprint_vars>>

\* An iteration that puts 0.0 for a field that does not parse and goes on.
PredictParseFieldLenient ==
    /\ pc = "predict_parse"
    /\ feat_i <= NFeatures
    /\ LET feat == FEATURES[feat_i]
           raw  == FormGet(request_form, feat)
           val  == parse_value(feat, raw)
       IN  values' = Append(values, val.val)
    /\ feat_i' = feat_i + 1
    /\ UNCHANGED <<pc, response, parse_call, request_form, model_calls, pred,
                   blueprint_vars>>

\* One iteration of "for feat in FEATURES", with the handler's except clause.
PredictParseField ==
    /\ pc = "predict_parse"
    /\ feat_i <= NFeatures
    /\ LET feat == FEATURES[feat_i]
           raw  == FormGet(request_form, feat)
           val  == parse_value(feat, raw)
       IN  IF val.ok
           THEN /\ values' = Append(values, val.val)
                /\ feat_i' = feat_i + 1
                /\ UNCHANGED <<pc, response>>
           ELSE /\ response' = ErrorPage(val.err)
                /\ pc' = "predict_done"
                /\ UNCHANGED <<values, feat_i>>
    /\ UNCHANGED <<parse_call, request_form, model_calls, pred, blueprint_vars>>

\* X = np.array(values).reshape(1, -1); pred = model.predict(X)[0]
PredictInvoke ==
    /\ pc = "predict_parse"
    /\ feat_i > NFeatures
    /\ model_calls' = Append(model_calls, <<values>>)
    /\ \E out \in PredOutcomes :
         IF out.raises
         THEN /\ response' = ErrorPage(ModelError)
              /\ pc' = "predict_done"
              /\ UNCHANGED pred
         ELSE /\ pred' = out
              /\ pc' = "predict_format"
              /\ UNCHANGED response
    /\ UNCHANGED <<parse_call, request_form, feat_i, values, blueprint_vars>>

\* try: f"{float(pred) / 100000.0:.2f} L"
LakhsText(p) ==
    LET f == FloatOfPred(p)
    IN  IF f.ok
        THEN [ok |-> TRUE, text |-> FormatFloat2(f.val, Lakh) \o <<" ", "L">>]
        ELSE [ok |-> FALSE, text |-> <<>>]

\* except Exception: f"{float(pred):.2f}"
RawText(p) ==
    LET f == FloatOfPred(p)
    IN  IF f.ok
        THEN [ok |-> TRUE, text |-> FormatFloat2(f.val, 1)]
        ELSE [ok |-> FALSE, text |-> <<>>]

\* try: float(request.form.get("area")) except Exception: None
TotalAreaOf(form) ==
    LET raw == FormGet(form, "area")
    IN  IF raw.present /\ PyFloat(raw.s).ok THEN SomeArea(PyFloat(raw.s).val) ELSE NoArea

\* The formatting of the prediction, the total area and the page rendered.
PredictFormat ==
    /\ pc = "predict_format"
    /\ response' =
         IF LakhsText(pred).ok
         THEN EstimatePage(LakhsText(pred).text, TotalAreaOf(request_form))
         ELSE IF RawText(pred).ok
         THEN EstimatePage(RawText(pred).text, TotalAreaOf(request_form))
         ELSE ErrorPage(FloatError)
    /\ pc' = "predict_done"
    /\ UNCHANGED <<parse_call, request_form, feat_i, values, model_calls, pred,
                   blueprint_vars>>

\* --------------------------------------- POST /generate_blueprint, inputs
\* The entries long lists start with, the entry of negative area and the
\* entry they are filled with.
LargeRooms == {RoomObj("Kitchen", AreaNum(100 * FScale)),
               RoomObj("Study", AreaNum(90 * FScale)),
               RoomObj("G", AreaNum(5))}

Negative == RoomObj("A", AreaNum(0 - 5 * FScale))

Filler == RoomObj("Cell", AreaNum(1 * FScale))

\* Entries of a rooms list.
Entries == {NotAnObject,
            RoomObj("Hall", AreaNum(500 * FScale)),
            RoomObj("Kitchen", AreaNum(100 * FScale)),
            Negative,
            RoomObj("B", AreaNum(0)),
            RoomObj("C", AreaAbsent),
            RoomObj("D", AreaNull),
            RoomNoName(AreaStr(<<"a", "b", "c">>)),
            RoomObj("E", AreaStr(<<"1", "2", ".", "5">>)),
            RoomObj("F", AreaStr(<<"i", "n", "f">>)),
            RoomObj("G", AreaNum(5))}

Heads == UNION {[1..n -> Entries] : n \in 0..MaxHead}

\* Long lists start with distinct larger rooms.
LargeHeads ==
    {h \in UNION {[1..n -> LargeRooms] : n \in 0..MaxLargeHead} :
       \A p, q \in 1..Len(h) : p # q => h[p] # h[q]}

FillCounts == {k * FillStep : k \in 1..MaxFillSteps}

RoomsList(items) == [kind |-> "list", truthy |-> items # <<>>, items |-> items]

\* The values under "rooms" that are no list: the key absent (the default
\* [] is used), null, "", a string, 0, a number, {} and an object with keys.
NonListRooms ==
    {[kind |-> k, truthy |-> t, items |-> <<>>] :
       k \in {"string", "number", "object"}, t \in BOOLEAN}
    \cup {[kind |-> k, truthy |-> FALSE, items |-> <<>>] : k \in {"absent", "null"}}

\* The request bodies: no JSON, a JSON value that is no object, an object.
Payloads ==
    {[json |-> j, rooms |-> RoomsList(<<>>)] : j \in {"invalid", "other"}}
    \cup {[json |-> "object", rooms |-> r] : r \in NonListRooms}
    \cup {[json |-> "object", rooms |-> RoomsList(h)] : h \in Heads}
    \cup {[json |-> "object", rooms |-> RoomsList(h \o <<Negative>> \o [p \in 1..n |-> Filler])] :
            h \in LargeHeads, n \in FillCounts}

\* The areas of kept whose exact width or height product is a whole number.
WholeProducts(kept, total) ==
    IF total.k # "fin" THEN {}
    ELSE {<<"w", kept[p].area.v>> : p \in {q \in 1..Len(kept) :
                /\ kept[q].area.k = "fin"
                /\ WidthQuot(kept[q].area, total).r = 0}}
         \cup
         {<<"h", kept[p].area.v>> : p \in {q \in 1..Len(kept) :
                /\ kept[q].area.k = "fin"
                /\ HeightQuot(kept[q].area, total).r = 0}}

\* --------------------------------------- POST /generate_blueprint, steps
JsonError(status, msg) == [status |-> status, png |-> FALSE, error |-> msg, footer |-> 0]
\* send_file(buf, mimetype="image/png", ...)
PngFile(footer) == [status |-> 200, png |-> TRUE, error |-> "", footer |-> footer]

\* not rooms or not isinstance(rooms, list)
RoomsRejected(rooms) == ~rooms.truthy \/ rooms.kind # "list"

\* total_area <= 0
TotalRejected(total) == total.k = "fin" /\ total.v <= 0

\* The request arrives: the body is read and rooms is checked.
BlueprintRequest ==
    /\ pc = "idle"
    /\ \E p \in Payloads :
         /\ payload' = p
         /\ IF p.json # "object"
            THEN \* get_json raises, or payload has no get
                 /\ bp_response' = JsonError(500, "exception")
                 /\ pc' = "bp_done"
                 /\ UNCHANGED san_i
            ELSE IF RoomsRejected(p.rooms)
            THEN /\ bp_response' = JsonError(400, "No rooms provided or invalid format")
                 /\ pc' = "bp_done"
                 /\ UNCHANGED san_i
            ELSE /\ san_i' = 1
                 /\ pc' = "bp_sanitize"
                 /\ UNCHANGED bp_response
    /\ sanitized' = <<>>
    /\ total_area' = FloatOfInt(0)
    /\ UNCHANGED <<parse_call, predict_vars, rooms_sorted, room_i, x, y,
                   max_row_height, rectangles, fp_down>>

\* One iteration of "for r in rooms".  A kept entry also carries idx, its
\* position in the request.
BlueprintSanitize ==
    /\ pc = "bp_sanitize"
    /\ san_i <= Len(payload.rooms.items)
    /\ LET r    == payload.rooms.items[san_i]
           name == NameOf(r)
           area == AreaOf(r)
       IN  IF ~r.isobj
           THEN \* r.get raises AttributeError
                /\ bp_response' = JsonError(500, "exception")
                /\ pc' = "bp_done"
                /\ UNCHANGED <<san_i, sanitized, total_area>>
           ELSE /\ san_i' = san_i + 1
                /\ IF Positive(area)
                   THEN /\ sanitized' = Append(sanitized,
                                          [room |-> name, area |-> area, idx |-> san_i])
                        /\ total_area' = FAdd(total_area, area)
                   ELSE UNCHANGED <<sanitized, total_area>>
                /\ UNCHANGED <<pc, bp_response>>
    /\ UNCHANGED <<parse_call, predict_vars, payload, rooms_sorted, room_i, x, y,
                   max_row_height, rectangles, fp_down>>

\* After the sanitize loop: the total checked, the canvas made, the rooms
\* sorted, the cursor set.
BlueprintLayout ==
    /\ pc = "bp_sanitize"
    /\ san_i > Len(payload.rooms.items)
    /\ IF TotalRejected(total_area)
       THEN /\ bp_response' = JsonError(400, "Total area must be > 0")
            /\ pc' = "bp_done"
            /\ UNCHANGED <<rooms_sorted, room_i, x, y, max_row_height, fp_down,
                           rectangles>>
       ELSE /\ rooms_sorted' = Sorted(sanitized)
            /\ room_i' = 1
            /\ x' = padding
            /\ y' = padding
            /\ max_row_height' = 0
            /\ rectangles' = <<>>
            /\ fp_down' \in SUBSET WholeProducts(sanitized, total_area)
            /\ pc' = "bp_loop"
            /\ UNCHANGED bp_response
    /\ UNCHANGED <<parse_call, predict_vars, payload, san_i, sanitized, total_area>>

\* w = max(60, int(area * px_per_sqft * 1.8)); total_area infinite makes
\* px_per_sqft 0.0
WidthOf(area, total, down) ==
    IF total.k = "inf" THEN Max(60, 0)
    ELSE Max(60, IntOfProduct(WidthQuot(area, total), <<"w", area.v>> \in down))

\* h = max(60, int(base_row_height * (1.0 + (area / total_area) * 1.4)))
HeightOf(area, total, down) ==
    IF total.k = "inf" THEN Max(60, base_row_height)
    ELSE Max(60, IntOfProduct(HeightQuot(area, total), <<"h", area.v>> \in down))

\* A row height that forgets the earlier rooms of the row.
NewRowHeightLast(m, h) == h

\* max_row_height = max(max_row_height, h)
NewRowHeight(m, h) == Max(m, h)

\* x + w + padding > img_w
MustWrap(cx, w) == cx + w + padding > img_w

\* y + h + padding > img_h
OutOfCanvas(cy, h) == cy + h + padding > img_h

\* An iteration that skips a room out of the canvas and goes on (continue
\* where the handler has break).
BlueprintPlaceContinue ==
    /\ pc = "bp_loop"
    /\ room_i <= Len(rooms_sorted)
    /\ LET r    == rooms_sorted[room_i]
           w    == WidthOf(r.area, total_area, fp_down)
           h    == HeightOf(r.area, total_area, fp_down)
           wrap == MustWrap(x, w)
           x1   == IF wrap THEN padding ELSE x
           y1   == IF wrap THEN y + max_row_height + padding ELSE y
           m1   == IF wrap THEN 0 ELSE max_row_height
       IN  IF r.area.k = "inf"
           THEN /\ bp_response' = JsonError(500, "exception")
                /\ pc' = "bp_done"
                /\ UNCHANGED <<room_i, x, y, max_row_height, rectangles>>
           ELSE IF OutOfCanvas(y1, h)
           THEN /\ x' = x1
                /\ y' = y1
                /\ max_row_height' = m1
                /\ room_i' = room_i + 1
                /\ UNCHANGED <<pc, rectangles, bp_response>>
           ELSE /\ rectangles' = Append(rectangles,
                                   [x |-> x1, y |-> y1, w |-> w, h |-> h,
                                    room |-> r.room, sqft |-> IntOf(r.area),
                                    area |-> r.area, idx |-> r.idx, pos |-> room_i])
                /\ x' = x1 + w + padding
                /\ y' = y1
                /\ max_row_height' = NewRowHeight(m1, h)
                /\ room_i' = room_i + 1
                /\ UNCHANGED <<pc, bp_response>>
    /\ UNCHANGED <<parse_call, predict_vars, payload, san_i, sanitized, total_area,
                   rooms_sorted, fp_down>>

\* One iteration of "for r in rooms_sorted": the size, the wrap, the break
\* or the rectangle drawn and the cursor moved.
BlueprintPlace ==
    /\ pc = "bp_loop"
    /\ room_i <= Len(rooms_sorted)
    /\ LET r    == rooms_sorted[room_i]
           w    == WidthOf(r.area, total_area, fp_down)
           h    == HeightOf(r.area, total_area, fp_down)
           wrap == MustWrap(x, w)
           x1   == IF wrap THEN padding ELSE x
           y1   == IF wrap THEN y + max_row_height + padding ELSE y
           m1   == IF wrap THEN 0 ELSE max_row_height
       IN  IF r.area.k = "inf"
           THEN \* inf * 0.0 is nan and int(nan) raises ValueError
                /\ bp_response' = JsonError(500, "exception")
                /\ pc' = "bp_done"
                /\ UNCHANGED <<room_i, x, y, max_row_height, rectangles>>
           ELSE IF OutOfCanvas(y1, h)
           THEN \* break
                /\ x' = x1
                /\ y' = y1
                /\ max_row_height' = m1
                /\ pc' = "bp_footer"
                /\ UNCHANGED <<room_i, rectangles, bp_response>>
           ELSE /\ rectangles' = Append(rectangles,
                                   [x |-> x1, y |-> y1, w |-> w, h |-> h,
                                    room |-> r.room, sqft |-> IntOf(r.area),
                                    area |-> r.area, idx |-> r.idx, pos |-> room_i])
                /\ x' = x1 + w + padding
                /\ y' = y1
                /\ max_row_height' = NewRowHeight(m1, h)
                /\ room_i' = room_i + 1
                /\ UNCHANGED <<pc, bp_response>>
    /\ UNCHANGED <<parse_call, predict_vars, payload, san_i, sanitized, total_area,
                   rooms_sorted, fp_down>>

\* After the loop: the footer f"Total: {int(total_area)} sq.ft", the image
\* saved and sent.  int(inf) raises OverflowError.
BlueprintFooter ==
    /\ \/ pc = "bp_footer"
       \/ pc = "bp_loop" /\ room_i > Len(rooms_sorted)
    /\ bp_response' = IF total_area.k = "fin"
                      THEN PngFile(IntOf(total_area))
                      ELSE JsonError(500, "exception")
    /\ pc' = "bp_done"
    /\ UNCHANGED <<parse_call, predict_vars, payload, san_i, sanitized, total_area,
                   rooms_sorted, room_i, x, y, max_row_height, rectangles, fp_down>>

Next ==
    \/ ParseCall
    \/ PredictRequest
    \/ PredictParseField
    \/ PredictInvoke
    \/ PredictFormat
    \/ BlueprintRequest
    \/ BlueprintSanitize
    \/ BlueprintLayout
    \/ BlueprintPlace
    \/ BlueprintFooter

Spec == Init /\ [][Next]_vars

\* Direct calls of parse_value only.
NextParse == ParseCall

SpecParse == Init /\ [][NextParse]_vars

\* POST /predict only.
NextPredict ==
    \/ PredictRequest
    \/ PredictParseField
    \/ PredictInvoke
    \/ PredictFormat

SpecPredict == Init /\ [][NextPredict]_vars

\* POST /generate_blueprint only.
NextBlueprint ==
    \/ BlueprintRequest
    \/ BlueprintSanitize
    \/ BlueprintLayout
    \/ BlueprintPlace
    \/ BlueprintFooter

SpecBlueprint == Init /\ [][NextBlueprint]_vars

\* ============================================================ claims
\* The value sent under a name in a form whose names are distinct.
SentValue(form, name) ==
    IF \E p \in 1..Len(form) : form[p].name = name
    THEN Some(form[CHOOSE p \in 1..Len(form) : form[p].name = name].value)
    ELSE None

\* The raw value is absent or has nothing but whitespace.
IsMissing(raw) == ~raw.present \/ \A p \in 1..Len(raw.s) : IsWs(raw.s[p])

\* C1: for every feature name, parse_value of a value that is absent or
\* empty after trimming fails with MissingInput for that name: it yields no
\* float and no other kind of error.
C1_MissingInput ==
    (pc = "parsed" /\ IsMissing(parse_call.raw)) =>
        /\ ~parse_call.result.ok
        /\ parse_call.result.err.kind = "MissingInput"
        /\ parse_call.result.err.name = parse_call.name

\* C1 witness: furnishingstatus called with whitespace only.
C1_Witness ==
    /\ pc = "parsed"
    /\ parse_call.name = "furnishingstatus"
    /\ parse_call.raw.present
    /\ Len(parse_call.raw.s) >= 2
    /\ IsMissing(parse_call.raw)
    /\ parse_call.result.err.kind = "MissingInput"

\* C2: for furnishingstatus with a non-empty trimmed value the result is the
\* numeric parse when the value is numeric, else 0.0, 1.0 or 2.0 when the
\* lower-cased value is unfurnished, semi-furnished or furnished, else the
\* UnrecognizedCategory error; for any other field a non-numeric value
\* fails with InvalidNumeric.
C2_Furnishing ==
    (pc = "parsed" /\ ~IsMissing(parse_call.raw)) =>
        LET t   == Strip(parse_call.raw.s)
            num == PyFloat(t)
            res == parse_call.result
        IN  IF parse_call.name = "furnishingstatus"
            THEN IF num.ok THEN res.ok /\ res.val = num.val
                 ELSE IF Lower(t) = Unfurnished THEN res.ok /\ res.val = Fin(0)
                 ELSE IF Lower(t) = SemiFurnished THEN res.ok /\ res.val = Fin(1 * FScale)
                 ELSE IF Lower(t) = Furnished THEN res.ok /\ res.val = Fin(2 * FScale)
                 ELSE ~res.ok /\ res.err.kind = "UnrecognizedCategory" /\ res.err.raw = t
            ELSE ~num.ok =>
                   /\ ~res.ok
                   /\ res.err.kind = "InvalidNumeric"
                   /\ res.err.name = parse_call.name

\* C2 witness: a padded category in capitals parsed to 1.0.
C2_Witness ==
    /\ pc = "parsed"
    /\ parse_call.name = "furnishingstatus"
    /\ parse_call.raw.present
    /\ Strip(parse_call.raw.s) # parse_call.raw.s
    /\ Lower(Strip(parse_call.raw.s)) = SemiFurnished
    /\ Strip(parse_call.raw.s) # SemiFurnished
    /\ parse_call.result.ok
    /\ parse_call.result.val = Fin(1 * FScale)

InPredict == pc \in {"predict_parse", "predict_format", "predict_done"}

\* Field f of the form does not parse.
FieldFails(form, f) == ~parse_value(FEATURES[f], SentValue(form, FEATURES[f])).ok

FailingFields(form) == {f \in 1..NFeatures : FieldFails(form, f)}

FirstFailing(form) ==
    LET bad == FailingFields(form)
    IN  CHOOSE f \in bad : \A g \in bad : f <= g

\* C3: in POST /predict with a field that does not parse, the model is never
\* invoked, the result page is never rendered, no field after the first
\* failing one is examined, and the response is the input page with the
\* error of the first failing field in the feature order.
C3_FailFast ==
    (InPredict /\ FailingFields(request_form) # {}) =>
        LET f == FirstFailing(request_form)
        IN  /\ model_calls = <<>>
            /\ response.page # "estimate.html"
            /\ feat_i <= f
            /\ Len(values) < f
            /\ pc # "predict_format"
            /\ pc = "predict_done" =>
                 /\ feat_i = f
                 /\ response.page = "index.html"
                 /\ response.error.name = FEATURES[f]
                 /\ response.error =
                      parse_value(FEATURES[f], SentValue(request_form, FEATURES[f])).err

\* C3 witness: two fields fail with different errors and the earlier one is
\* reported.
C3_Witness ==
    /\ pc = "predict_done"
    /\ \E f, g \in 1..NFeatures :
         /\ f < g
         /\ FieldFails(request_form, f)
         /\ FieldFails(request_form, g)
         /\ response.error.name = FEATURES[f]
         /\ response.error.kind = "MissingInput"
         /\ parse_value(FEATURES[g], SentValue(request_form, FEATURES[g])).err.kind
              = "UnrecognizedCategory"

\* The order of the feature vector.
C4_Order == <<"area", "bedrooms", "bathrooms", "stories", "mainroad", "guestroom",
              "basement", "hotwaterheating", "airconditioning", "parking",
              "prefarea", "furnishingstatus">>

\* C4: in POST /predict with twelve valid fields the model is invoked exactly
\* once, with a single row of exactly twelve values, the i-th the parse of
\* the i-th field of the feature order, in whatever order the fields came.
C4_FeatureVector ==
    (InPredict /\ FailingFields(request_form) = {}) =>
        /\ pc = "predict_parse" => model_calls = <<>>
        /\ pc # "predict_parse" =>
             /\ Len(model_calls) = 1
             /\ Len(model_calls[1]) = 1
             /\ Len(model_calls[1][1]) = 12
             /\ \A i \in 1..12 :
                  model_calls[1][1][i] =
                    parse_value(C4_Order[i], SentValue(request_form, C4_Order[i])).val

\* C4 witness: the fields came in reverse order, two of them differ from the
\* rest, and the model was invoked.
C4_Witness ==
    /\ pc = "predict_done"
    /\ Len(request_form) = 12
    /\ request_form[1].name = "furnishingstatus"
    /\ Len(model_calls) = 1
    /\ model_calls[1][1][1] = Fin(15)
    /\ model_calls[1][1][12] = Fin(2 * FScale)
    /\ model_calls[1][1][2] = Fin(2 * FScale)
    /\ request_form[1].value # <<"2">>

EndsWithL(text) ==
    Len(text) >= 2 /\ text[Len(text) - 1] = " " /\ text[Len(text)] = "L"

\* C5: in POST /predict, a model output that float() rejects is rendered on
\* the result page, formatted to two decimals without suffix; a numeric
\* output is rendered as the output divided by 100000, to two decimals,
\* followed by " L".
C5_FormatFallback ==
    (pc = "predict_done" /\ pred.kind # "unset") =>
        /\ response.page = "estimate.html"
        /\ IF FloatOfPred(pred).ok
           THEN response.prediction = FormatFloat2(FloatOfPred(pred).val, 100000) \o <<" ", "L">>
           ELSE ~EndsWithL(response.prediction)

InBlueprint == pc \in {"bp_sanitize", "bp_loop", "bp_footer", "bp_done"}

\* The entry is an object whose area parses to a value > 0.
HasPositiveArea(r) == r.isobj /\ Positive(AreaOf(r))

RECURSIVE SumOfPositive(_, _, _)
\* The sum of the positive areas of items[lo..hi].
SumOfPositive(items, lo, hi) ==
    IF lo > hi THEN Fin(0)
    ELSE IF lo = hi
    THEN (IF HasPositiveArea(items[lo]) THEN AreaOf(items[lo]) ELSE Fin(0))
    ELSE FAdd(SumOfPositive(items, lo, (lo + hi) \div 2),
              SumOfPositive(items, (lo + hi) \div 2 + 1, hi))

\* C6: in POST /generate_blueprint, when rooms is absent, empty, no list or
\* holds no entry whose area parses to a value > 0, the response is HTTP 400
\* with a JSON error body and no image.
C6_InvalidRooms400 ==
    (/\ pc = "bp_done"
     /\ payload.json = "object"
     /\ \/ RoomsRejected(payload.rooms)
        \/ \A q \in 1..Len(payload.rooms.items) : ~HasPositiveArea(payload.rooms.items[q]))
    => /\ bp_response.status = 400
       /\ ~bp_response.png
       /\ bp_response.error # ""

\* C7: rooms are placed in descending order of area, ties in the order of
\* the request; an entry whose area is not positive or does not parse is
\* never placed and adds nothing to total_area.
C7_PlacementOrder ==
    InBlueprint /\ payload.json = "object" =>
        LET items == payload.rooms.items
        IN  /\ \A i, j \in 1..Len(rectangles) :
                 i < j =>
                   /\ ~FLess(rectangles[i].area, rectangles[j].area)
                   /\ rectangles[i].area = rectangles[j].area
                        => rectangles[i].idx < rectangles[j].idx
            /\ \A i \in 1..Len(rectangles) :
                 /\ HasPositiveArea(items[rectangles[i].idx])
                 /\ rectangles[i].area = AreaOf(items[rectangles[i].idx])
            /\ pc = "bp_sanitize" => total_area = SumOfPositive(items, 1, san_i - 1)
            /\ pc \in {"bp_loop", "bp_footer"} =>
                 total_area = SumOfPositive(items, 1, Len(items))

\* C7 witness: an image whose rooms came in another order than placed, with
\* two rooms of equal area and an entry of negative area in the request.
C7_Witness ==
    /\ pc = "bp_done"
    /\ bp_response.status = 200
    /\ \E i, j \in 1..Len(rectangles) :
         i < j /\ rectangles[i].idx > rectangles[j].idx
    /\ \E i, j \in 1..Len(rectangles) :
         i < j /\ rectangles[i].area = rectangles[j].area
    /\ \E q \in 1..Len(payload.rooms.items) :
         payload.rooms.items[q].area.kind = "number" /\ payload.rooms.items[q].area.num < 0

\* Placement stopped before the end of rooms_sorted.
RoomsOmitted ==
    /\ rooms_sorted # <<>>
    /\ rooms_sorted[1].area.k = "fin"
    /\ Len(rectangles) < Len(rooms_sorted)

\* C8: the first room of the sorted order whose y + height + padding exceeds
\* the canvas height stops the placement; the rooms placed are a prefix of
\* the sorted order, none of them exceeds the canvas height, the response is
\* still HTTP 200 and the footer total counts the omitted rooms.
C8_StopAtOverflow ==
    /\ Len(rectangles) <= Len(rooms_sorted)
    /\ \A k \in 1..Len(rectangles) :
         /\ rectangles[k].idx = rooms_sorted[k].idx
         /\ rectangles[k].y + rectangles[k].h + padding <= img_h
    /\ pc \in {"bp_footer", "bp_done"} /\ RoomsOmitted =>
         LET first == rooms_sorted[Len(rectangles) + 1]
         IN  y + HeightOf(first.area, total_area, fp_down) + padding > img_h
    /\ pc = "bp_done" /\ RoomsOmitted =>
         /\ bp_response.status = 200
         /\ bp_response.png
         /\ bp_response.footer =
              IntOf(SumOfPositive(payload.rooms.items, 1, Len(payload.rooms.items)))

\* C8 witness: rooms were omitted, one of them a smaller room that would
\* have fitted where the placement stopped.
C8_Witness ==
    /\ pc = "bp_done"
    /\ bp_response.status = 200
    /\ RoomsOmitted
    /\ Len(rectangles) > 0
    /\ \E k \in (Len(rectangles) + 2)..Len(rooms_sorted) :
         y + HeightOf(rooms_sorted[k].area, total_area, fp_down) + padding <= img_h

\* C9: every placed rectangle lies inside the 1500 x 1000 canvas with 16 px
\* of padding on all sides; no wrap happens on an empty row.
C9_InsideCanvas ==
    /\ \A k \in 1..Len(rectangles) :
         /\ rectangles[k].x >= 16
         /\ rectangles[k].y >= 16
         /\ rectangles[k].x + rectangles[k].w + 16 <= 1500
         /\ rectangles[k].y + rectangles[k].h + 16 <= 1000
    /\ (/\ pc = "bp_loop"
        /\ room_i <= Len(rooms_sorted)
        /\ rooms_sorted[1].area.k = "fin"
        /\ x = padding)
       => ~MustWrap(x, WidthOf(rooms_sorted[room_i].area, total_area, fp_down))

\* C9 witness: an image with a room placed right after a wrap.
C9_Witness ==
    /\ pc = "bp_done"
    /\ bp_response.status = 200
    /\ \E k \in 1..Len(rectangles) :
         rectangles[k].x = 16 /\ rectangles[k].y > 16 /\ rectangles[k].w > 60

\* C10: no two placed rectangles overlap: rooms of one row are at least the
\* padding apart, a room of a later row starts at least the padding below
\* the bottom of every room of an earlier row; heights do not increase in
\* the order of placement, so the row height is that of the row's first room.
C10_NoOverlap ==
    /\ \A i, j \in 1..Len(rectangles) :
         i < j =>
           /\ rectangles[i].h >= rectangles[j].h
           /\ rectangles[i].y <= rectangles[j].y
           /\ IF rectangles[i].y = rectangles[j].y
              THEN rectangles[j].x >= rectangles[i].x + rectangles[i].w + padding
              ELSE rectangles[j].y >= rectangles[i].y + rectangles[i].h + padding
    /\ pc = "bp_loop" =>
         IF x = padding THEN max_row_height = 0
         ELSE LET row == {k \in 1..Len(rectangles) : rectangles[k].y = y}
                  head == CHOOSE k \in row : \A l \in row : k <= l
              IN  row # {} /\ max_row_height = rectangles[head].h

\* C10 witness: an image of several rows whose first row has rooms of
\* different heights.
C10_Witness ==
    /\ pc = "bp_done"
    /\ bp_response.status = 200
    /\ \E i, j, k \in 1..Len(rectangles) :
         /\ i < j
         /\ rectangles[i].y = rectangles[j].y
         /\ rectangles[i].h > rectangles[j].h
         /\ rectangles[k].y > rectangles[i].y

====
